---- MODULE Spec2Model ----
(***************************************************************************)
(* im::smart_mutex<T, Mutex> (include/smart_mutex.hpp): a value of type T  *)
(* bound to a mutex.  Every operation of the class locks the mutex (one    *)
(* std::lock_guard, or one std::scoped_lock over two mutexes), touches the *)
(* payload, and unlocks.                                                   *)
(*                                                                         *)
(* Granularity.  A payload is NCells machine words; a thread reads or      *)
(* writes one word per step, so a payload access that is not protected by  *)
(* the mutex can be torn.  std::scoped_lock(m1, m2) is std::lock's         *)
(* try-and-back-off sequence of lock / try_lock / unlock calls, one call   *)
(* per step.                                                               *)
(***************************************************************************)
EXTENDS Integers, Sequences, FiniteSets, TLC

\* ---------------------------------------------------------------- bounds
\* Threads, shared instances, words per payload, the largest word, and the
\* member calls made through one named accessor.
NThreads == 2
NInst == 2
NCells == 2
MaxVal == 1
ScopedOps == 2

Threads == 1..NThreads
\* The shared instances, and one function-local instance per thread: the
\* object a copy/move constructor builds.
Inst == 1..NInst
Local(t) == NInst + t
AllInst == 1..(NInst + NThreads)
Cells == 1..NCells
Val == 0..MaxVal
\* T, the payload type: NCells words.
T == [Cells -> Val]
\* T(): the default-constructed payload (std::string() is empty).
Default == [c \in Cells |-> 0]
NoThread == 0

SingleKinds == {"write_access", "read_access", "operator_T",
                "eq_raw", "ne_raw", "swap_raw", "raw_swap"}
RawKinds == {"eq_raw", "ne_raw", "swap_raw", "raw_swap"}
AccessKinds == {"write_access", "read_access"}
DualKinds == {"copy_assign", "move_assign", "eq", "ne", "swap"}
CtorKinds == {"copy_ctor", "move_ctor"}
NoOp == [kind |-> "none", a |-> 0, b |-> 0]
SwapKinds == {"swap", "swap_raw", "raw_swap"}
CopyKinds == {"copy_assign", "copy_ctor"}
MoveKinds == {"move_assign", "move_ctor"}

\* The operations that transfer a whole payload: copies, moves and swaps.
TransferKinds == CopyKinds \cup MoveKinds \cup SwapKinds
NoLast == [op |-> NoOp, before |-> <<Default, Default>>]

VARIABLES
    mutex,      \* mutex[i]: the thread that owns instance i's Mutex, or NoThread
    value,      \* value[i]: instance i's payload
    pc,         \* pc[t]: where thread t is in its current operation
    op,         \* op[t]: the operation thread t is running, and its operands
    first,      \* first[t]: which operand std::lock locks first (1 = a, 2 = b)
    k,          \* k[t]: the next payload word thread t touches
    n,          \* n[t]: member calls left to make through the live accessor
    buf,        \* buf[t]: the caller's raw T: an operand, or the value returned
    acc,        \* acc[t]: "all words compared so far are equal"
    committed,  \* history: committed[i] is value[i] as of the last unlock of i
    old,        \* history: the operands of t's transfer when t got its locks
    last        \* history: the transfer that completed last, if nothing ran since

vars == <<mutex, value, pc, op, first, k, n, buf, acc, committed, old, last>>

TypeOK ==
    /\ mutex \in [AllInst -> Threads \cup {NoThread}]
    /\ value \in [AllInst -> T]
    /\ committed \in [AllInst -> T]
    /\ pc \in [Threads -> {"idle", "lock", "try", "backoff", "cs", "unlock", "ret"}]
    /\ first \in [Threads -> {1, 2}]
    /\ k \in [Threads -> 1..NCells]
    /\ n \in [Threads -> 0..ScopedOps]
    /\ buf \in [Threads -> T]
    /\ acc \in [Threads -> BOOLEAN]
    /\ old \in [Threads -> T \X T]
    /\ last \in [op : {NoOp} \cup [kind : TransferKinds, a : AllInst, b : Inst \cup {0}],
                 before : T \X T]

\* Construction from forwarded arguments or from a raw T: no lock is taken.
Init ==
    /\ mutex = [i \in AllInst |-> NoThread]
    /\ \E shared \in [Inst -> T] :
        value = [i \in AllInst |-> IF i \in Inst THEN shared[i] ELSE Default]
    /\ committed = value
    /\ pc = [t \in Threads |-> "idle"]
    /\ op = [t \in Threads |-> NoOp]
    /\ first = [t \in Threads |-> 1]
    /\ k = [t \in Threads |-> 1]
    /\ n = [t \in Threads |-> 0]
    /\ buf = [t \in Threads |-> Default]
    /\ acc = [t \in Threads |-> TRUE]
    /\ old = [t \in Threads |-> <<Default, Default>>]
    /\ last = NoLast

\* ------------------------------------------------------------ the Mutex
IsDual(t) == op[t].kind \in DualKinds \cup CtorKinds
\* The operand std::lock locks first, and the one it then tries.
FirstInst(t) == IF first[t] = 1 THEN op[t].a ELSE op[t].b
SecondInst(t) == IF first[t] = 1 THEN op[t].b ELSE op[t].a
\* The instances whose payload the operation touches.
Touched(t) == IF IsDual(t) THEN {op[t].a, op[t].b} ELSE {op[t].a}

\* A lock() that returns although another thread owns the mutex.
CanLockAlways(i) == TRUE

\* One mutex shared by all instances: lock() returns only when no instance
\* is locked.
CanLockShared(i) == \A j \in AllInst : mutex[j] = NoThread

\* Mutex::lock() returns only when the mutex is free.
CanLock(i) == mutex[i] = NoThread

\* The operands of a transfer as they are when all its locks are held.
Snapshot(t) ==
    IF op[t].kind \in TransferKinds
    THEN <<value[op[t].a], IF IsDual(t) THEN value[op[t].b] ELSE buf[t]>>
    ELSE <<Default, Default>>

\* ------------------------------------------------- starting an operation
\* The calls a thread can make: every public operation of the class, on
\* every choice of shared operands (a = b included).  A constructor builds
\* the caller's function-local instance from a shared one.
Ops(t) ==
    [kind : SingleKinds, a : Inst, b : {0}]
        \cup [kind : DualKinds, a : Inst, b : Inst]
        \cup [kind : CtorKinds, a : {Local(t)}, b : Inst]

\* The caller's raw T: an argument of the raw-value overloads, otherwise
\* the default-constructed variable that receives the result.
RawArgs(o) == IF o.kind \in RawKinds THEN T ELSE {Default}
\* Member calls made through one accessor: 1 for the temporary of a single
\* expression (g->append(x)), several for a named accessor in a scope.
Calls(o) == IF o.kind \in AccessKinds THEN 1..ScopedOps ELSE {0}

Start(t, o, rv, calls) ==
    /\ pc[t] = "idle"
    /\ op' = [op EXCEPT ![t] = o]
    /\ buf' = [buf EXCEPT ![t] = rv]
    /\ n' = [n EXCEPT ![t] = calls]
    /\ first' = [first EXCEPT ![t] = 1]
    /\ k' = [k EXCEPT ![t] = 1]
    /\ acc' = [acc EXCEPT ![t] = TRUE]
    /\ pc' = [pc EXCEPT ![t] = "lock"]
    /\ UNCHANGED <<mutex, value, committed, old, last>>

\* Thread t calls one operation of the menu.
Call(t, menu) ==
    \E o \in menu : \E rv \in RawArgs(o) : \E calls \in Calls(o) :
        Start(t, o, rv, calls)

\* ------------------------------------------------------------- locking
\* An accessor or operation built without its std::lock_guard: the body
\* runs, and the mutex is never locked.
LockGuardSkipped(t) ==
    /\ pc[t] = "lock"
    /\ ~IsDual(t)
    /\ old' = [old EXCEPT ![t] = Snapshot(t)]
    /\ pc' = [pc EXCEPT ![t] = "cs"]
    /\ UNCHANGED <<mutex, value, op, first, k, n, buf, acc, committed, last>>

\* std::lock_guard<Mutex> lg(mutex): blocks until the mutex is free.
LockGuard(t) ==
    /\ pc[t] = "lock"
    /\ ~IsDual(t)
    /\ CanLock(op[t].a)
    /\ mutex' = [mutex EXCEPT ![op[t].a] = t]
    /\ old' = [old EXCEPT ![t] = Snapshot(t)]
    /\ pc' = [pc EXCEPT ![t] = "cs"]
    /\ UNCHANGED <<value, op, first, k, n, buf, acc, committed, last>>

\* std::scoped_lock lock(mutex, other.mutex), first call: lock() on the
\* operand that is currently first.
LockFirst(t) ==
    /\ pc[t] = "lock"
    /\ IsDual(t)
    /\ CanLock(FirstInst(t))
    /\ mutex' = [mutex EXCEPT ![FirstInst(t)] = t]
    /\ pc' = [pc EXCEPT ![t] = "try"]
    /\ UNCHANGED <<value, op, first, k, n, buf, acc, committed, old, last>>

\* Two sequential lock() calls instead of std::lock: the second call
\* blocks, with the first mutex held, until the second mutex is free.
TryLockBlocking(t) ==
    IF mutex[SecondInst(t)] = NoThread THEN {TRUE} ELSE {}

\* What try_lock() on the second operand can return.  On a mutex the caller
\* itself owns (both operands are one instance) the call is undefined: it
\* may report the mutex busy, or report success.
TryLockOutcomes(t) ==
    IF mutex[SecondInst(t)] = NoThread THEN {TRUE}
    ELSE IF mutex[SecondInst(t)] = t THEN {TRUE, FALSE}
    ELSE {FALSE}

\* A two-instance operation that locks only its own mutex: the body runs
\* without the other operand's lock.
TryLockSkipped(t) ==
    /\ pc[t] = "try"
    /\ old' = [old EXCEPT ![t] = Snapshot(t)]
    /\ pc' = [pc EXCEPT ![t] = "cs"]
    /\ UNCHANGED <<mutex, value, op, first, k, n, buf, acc, committed, last>>

\* Second call: try_lock() on the other operand; it never blocks.
TryLock(t) ==
    /\ pc[t] = "try"
    /\ \E got \in TryLockOutcomes(t) :
        IF got
        THEN /\ mutex' = [mutex EXCEPT ![SecondInst(t)] = t]
             /\ old' = [old EXCEPT ![t] = Snapshot(t)]
             /\ pc' = [pc EXCEPT ![t] = "cs"]
        ELSE /\ pc' = [pc EXCEPT ![t] = "backoff"]
             /\ UNCHANGED <<mutex, old, last>>
    /\ UNCHANGED <<value, op, first, k, n, buf, acc, committed, last>>

\* try_lock() failed: unlock the first operand and start over, locking the
\* operand that was busy first.
BackOff(t) ==
    /\ pc[t] = "backoff"
    /\ mutex' = [mutex EXCEPT ![FirstInst(t)] = NoThread]
    /\ first' = [first EXCEPT ![t] = 3 - first[t]]
    /\ pc' = [pc EXCEPT ![t] = "lock"]
    /\ UNCHANGED <<value, op, k, n, buf, acc, committed, old, last>>

\* ~lock_guard / ~scoped_lock: unlock every mutex the operation locked.
\* (rec is what the history variable last becomes.)
UnlockWith(t, rec) ==
    /\ pc[t] = "unlock"
    /\ mutex' = [i \in AllInst |-> IF i \in Touched(t) THEN NoThread ELSE mutex[i]]
    /\ committed' = [i \in AllInst |-> IF i \in Touched(t) THEN value[i] ELSE committed[i]]
    /\ old' = [old EXCEPT ![t] = <<Default, Default>>]
    /\ last' = rec
    /\ pc' = [pc EXCEPT ![t] = "ret"]
    /\ UNCHANGED <<value, op, first, k, n, buf, acc>>

\* An accessor whose lock outlives it: the expression ends and the mutex
\* stays locked.
UnlockDeferred(t) ==
    /\ pc[t] = "unlock"
    /\ pc' = [pc EXCEPT ![t] = "ret"]
    /\ UNCHANGED <<mutex, value, op, first, k, n, buf, acc, committed, old, last>>

Unlock(t) == UnlockWith(t, last)

\* The same step, remembering a completed transfer and its operands' values
\* from before it.
UnlockTracked(t) ==
    UnlockWith(t, IF op[t].kind \in TransferKinds
                  THEN [op |-> op[t], before |-> old[t]]
                  ELSE NoLast)

\* The call returns; a constructed function-local instance goes out of scope.
Return(t) ==
    /\ pc[t] = "ret"
    /\ pc' = [pc EXCEPT ![t] = "idle"]
    /\ op' = [op EXCEPT ![t] = NoOp]
    /\ first' = [first EXCEPT ![t] = 1]
    /\ n' = [n EXCEPT ![t] = 0]
    /\ buf' = [buf EXCEPT ![t] = Default]
    /\ acc' = [acc EXCEPT ![t] = TRUE]
    /\ value' = IF op[t].kind \in CtorKinds
                THEN [value EXCEPT ![Local(t)] = Default] ELSE value
    /\ committed' = IF op[t].kind \in CtorKinds
                    THEN [committed EXCEPT ![Local(t)] = Default] ELSE committed
    /\ UNCHANGED <<mutex, k, old, last>>

\* --------------------------------------------- the payload, word by word
\* After word k: on to the next word, or the statement is complete.
LastCell(t) == k[t] = NCells
NextCell(t) == IF LastCell(t) THEN 1 ELSE k[t] + 1
\* pc after a word of a one-statement body.
AfterCell(t) == IF LastCell(t) THEN "unlock" ELSE "cs"

InBody(t, kinds) == pc[t] = "cs" /\ op[t].kind \in kinds

\* sa->append(x) through a write_access: the payload keeps its last NCells
\* characters, so word c takes word c + 1 and the last word takes x.
AppendCell(t) ==
    /\ InBody(t, {"write_access"})
    /\ \E x \in (IF LastCell(t) THEN Val ELSE {0}) :
        value' = [value EXCEPT ![op[t].a][k[t]] =
                    IF LastCell(t) THEN x ELSE value[op[t].a][k[t] + 1]]
    /\ k' = [k EXCEPT ![t] = NextCell(t)]
    /\ n' = [n EXCEPT ![t] = IF LastCell(t) THEN n[t] - 1 ELSE n[t]]
    /\ pc' = [pc EXCEPT ![t] = IF LastCell(t) /\ n[t] = 1 THEN "unlock" ELSE "cs"]
    /\ UNCHANGED <<mutex, op, first, buf, acc, committed, old, last>>

\* ra->c_str() through a read_access: the payload is read, never written.
ReadCell(t) ==
    /\ InBody(t, {"read_access"})
    /\ buf' = [buf EXCEPT ![t][k[t]] = value[op[t].a][k[t]]]
    /\ k' = [k EXCEPT ![t] = NextCell(t)]
    /\ n' = [n EXCEPT ![t] = IF LastCell(t) THEN n[t] - 1 ELSE n[t]]
    /\ pc' = [pc EXCEPT ![t] = IF LastCell(t) /\ n[t] = 1 THEN "unlock" ELSE "cs"]
    /\ UNCHANGED <<mutex, value, op, first, acc, committed, old, last>>

\* operator T: return value;
ConvCell(t) ==
    /\ InBody(t, {"operator_T"})
    /\ buf' = [buf EXCEPT ![t][k[t]] = value[op[t].a][k[t]]]
    /\ k' = [k EXCEPT ![t] = NextCell(t)]
    /\ pc' = [pc EXCEPT ![t] = AfterCell(t)]
    /\ UNCHANGED <<mutex, value, op, first, n, acc, committed, old, last>>

\* other.value = value; the copy runs in the wrong direction.
CopyCellReversed(t) ==
    /\ InBody(t, CopyKinds)
    /\ value' = [value EXCEPT ![op[t].b][k[t]] = value[op[t].a][k[t]]]
    /\ k' = [k EXCEPT ![t] = NextCell(t)]
    /\ pc' = [pc EXCEPT ![t] = AfterCell(t)]
    /\ UNCHANGED <<mutex, op, first, n, buf, acc, committed, old, last>>

\* value = other.value;
CopyCell(t) ==
    /\ InBody(t, CopyKinds)
    /\ value' = [value EXCEPT ![op[t].a][k[t]] = value[op[t].b][k[t]]]
    /\ k' = [k EXCEPT ![t] = NextCell(t)]
    /\ pc' = [pc EXCEPT ![t] = AfterCell(t)]
    /\ UNCHANGED <<mutex, op, first, n, buf, acc, committed, old, last>>

\* value = std::move(other.value); the moved-from word is valid but
\* unspecified.
MoveCell(t) ==
    /\ InBody(t, MoveKinds)
    /\ \E left \in Val :
        value' = [i \in AllInst |->
                    IF i = op[t].b THEN [value[i] EXCEPT ![k[t]] = left]
                    ELSE IF i = op[t].a
                         THEN [value[i] EXCEPT ![k[t]] = value[op[t].b][k[t]]]
                    ELSE value[i]]
    /\ k' = [k EXCEPT ![t] = NextCell(t)]
    /\ pc' = [pc EXCEPT ![t] = AfterCell(t)]
    /\ UNCHANGED <<mutex, op, first, n, buf, acc, committed, old, last>>

\* value == other.value / value != other.value
CompareCell(t) ==
    /\ InBody(t, {"eq", "ne"})
    /\ acc' = [acc EXCEPT ![t] = acc[t] /\ value[op[t].a][k[t]] = value[op[t].b][k[t]]]
    /\ k' = [k EXCEPT ![t] = NextCell(t)]
    /\ pc' = [pc EXCEPT ![t] = AfterCell(t)]
    /\ UNCHANGED <<mutex, value, op, first, n, buf, committed, old, last>>

\* lhs.value == rhs / lhs.value != rhs
CompareRawCell(t) ==
    /\ InBody(t, {"eq_raw", "ne_raw"})
    /\ acc' = [acc EXCEPT ![t] = acc[t] /\ value[op[t].a][k[t]] = buf[t][k[t]]]
    /\ k' = [k EXCEPT ![t] = NextCell(t)]
    /\ pc' = [pc EXCEPT ![t] = AfterCell(t)]
    /\ UNCHANGED <<mutex, value, op, first, n, buf, committed, old, last>>

\* A swap without a temporary: lhs = rhs; rhs = lhs;
SwapCellNoTemp(t) ==
    /\ InBody(t, {"swap"})
    /\ value' = [value EXCEPT ![op[t].a][k[t]] = value[op[t].b][k[t]]]
    /\ k' = [k EXCEPT ![t] = NextCell(t)]
    /\ pc' = [pc EXCEPT ![t] = AfterCell(t)]
    /\ UNCHANGED <<mutex, op, first, n, buf, acc, committed, old, last>>

\* std::swap(lhs.value, rhs.value);
SwapCell(t) ==
    /\ InBody(t, {"swap"})
    /\ value' = [i \in AllInst |->
                    IF i = op[t].a THEN [value[i] EXCEPT ![k[t]] = value[op[t].b][k[t]]]
                    ELSE IF i = op[t].b
                         THEN [value[i] EXCEPT ![k[t]] = value[op[t].a][k[t]]]
                    ELSE value[i]]
    /\ k' = [k EXCEPT ![t] = NextCell(t)]
    /\ pc' = [pc EXCEPT ![t] = AfterCell(t)]
    /\ UNCHANGED <<mutex, op, first, n, buf, acc, committed, old, last>>

\* std::swap(lhs.value, rhs); / std::swap(lhs, rhs.value);
SwapRawCell(t) ==
    /\ InBody(t, {"swap_raw", "raw_swap"})
    /\ value' = [value EXCEPT ![op[t].a][k[t]] = buf[t][k[t]]]
    /\ buf' = [buf EXCEPT ![t][k[t]] = value[op[t].a][k[t]]]
    /\ k' = [k EXCEPT ![t] = NextCell(t)]
    /\ pc' = [pc EXCEPT ![t] = AfterCell(t)]
    /\ UNCHANGED <<mutex, op, first, n, acc, committed, old, last>>

\* operator!= returning what operator== returns.
ResultNotNegated(t) == acc[t]

\* What the comparison returns.
Result(t) == IF op[t].kind \in {"ne", "ne_raw"} THEN ~acc[t] ELSE acc[t]

\* ------------------------------------------------------ specifications
OpsOf(kinds, t) == {o \in Ops(t) : o.kind \in kinds}

Body(t) ==
    \/ AppendCell(t) \/ ReadCell(t) \/ ConvCell(t)
    \/ CopyCell(t) \/ MoveCell(t)
    \/ CompareCell(t) \/ CompareRawCell(t)
    \/ SwapCell(t) \/ SwapRawCell(t)

Run(t) ==
    \/ LockGuard(t) \/ LockFirst(t) \/ TryLock(t) \/ BackOff(t)
    \/ Body(t) \/ Unlock(t) \/ Return(t)

\* Thread 1 calls any operation; every other thread calls the operations
\* that write a shared payload.
WriterKinds == {"write_access", "move_assign", "swap"}
Menu(t) == IF t = 1 THEN Ops(t) ELSE OpsOf(WriterKinds, t)

Next == \E t \in Threads : Call(t, Menu(t)) \/ Run(t)

Spec == Init /\ [][Next]_vars


\* Accessors and snapshots only: every thread takes write and read
\* accessors (temporary or named), converts to T and compares with a raw T.
AccessMenu(t) == OpsOf({"write_access", "read_access", "operator_T", "eq_raw"}, t)

NextAccess ==
    \E t \in Threads :
        \/ Call(t, AccessMenu(t))
        \/ LockGuard(t)
        \/ AppendCell(t) \/ ReadCell(t) \/ ConvCell(t) \/ CompareRawCell(t)
        \/ Unlock(t) \/ Return(t)

SpecAccess == Init /\ [][NextAccess]_vars

\* ------------------------------------------------------------- claims
\* Thread t has a live accessor (write_access or read_access) on instance i.
AccessorAlive(t, i) ==
    /\ op[t].kind \in AccessKinds
    /\ op[t].a = i
    /\ pc[t] \in {"cs", "unlock"}
\* Thread t is inside the critical section of an operation that touches i.
InCritical(t, i) == pc[t] \in {"cs", "unlock"} /\ i \in Touched(t)
\* Thread t has started an operation on i and has not got its lock yet.
Waiting(t, i) == pc[t] = "lock" /\ op[t].a = i

\* C1: mutual exclusion.  On every instance at most one accessor is alive,
\* whether the accessors are write_access or read_access.
C1_MutualExclusion ==
    \A i \in Inst : \A t, u \in Threads :
        AccessorAlive(t, i) /\ AccessorAlive(u, i) => t = u

\* A read accessor is alive on an instance and a second thread's read
\* accessor on the same instance is held up at its lock.
C1_Witness ==
    \E i \in Inst : \E t, u \in Threads :
        /\ t # u
        /\ AccessorAlive(t, i) /\ op[t].kind = "read_access"
        /\ Waiting(u, i) /\ op[u].kind = "read_access"

\* C5: snapshot consistency.  While operator T copies the payload out, the
\* words copied so far are the payload's words and no other thread is inside
\* a critical section on the instance; the finished copy, which the call
\* returns, is the whole payload as it is at that instant.
C5_SnapshotConsistency ==
    \A t \in Threads :
        op[t].kind = "operator_T" =>
            /\ pc[t] = "cs" =>
                /\ \A c \in Cells : c < k[t] => buf[t][c] = value[op[t].a][c]
                /\ \A u \in Threads \ {t} : ~InCritical(u, op[t].a)
            /\ pc[t] = "unlock" =>
                /\ buf[t] = value[op[t].a]
                /\ \A u \in Threads \ {t} : ~InCritical(u, op[t].a)

\* operator T has copied a payload that is not the default one while a
\* writer on the same instance waits for the lock.
C5_Witness ==
    \E t, u \in Threads :
        /\ t # u
        /\ op[t].kind = "operator_T" /\ pc[t] = "unlock"
        /\ buf[t] # Default
        /\ op[u].kind = "write_access" /\ Waiting(u, op[t].a)

\* C6: scoped accessor atomicity.  What another thread's conversion, read
\* accessor or raw comparison has read when it completes is the payload as of
\* the last unlock of the instance: the payload from before a write_access
\* scope or after all of its member calls, never one in between; and while
\* a write_access is alive no other thread is in a critical section on the
\* instance.
C6_ScopedAtomicity ==
    \A t \in Threads :
        /\ (pc[t] = "unlock" /\ op[t].kind \in {"operator_T", "read_access"})
                => buf[t] = committed[op[t].a]
        /\ (pc[t] = "unlock" /\ op[t].kind = "eq_raw")
                => (acc[t] <=> committed[op[t].a] = buf[t])
        /\ \A i \in Inst :
            (AccessorAlive(t, i) /\ op[t].kind = "write_access")
                => \A u \in Threads \ {t} : ~InCritical(u, i)

\* A named write_access is between two of its member calls, the payload
\* differs from what it was before the scope, and another thread's
\* conversion waits for the lock.
C6_Witness ==
    \E t, u \in Threads :
        /\ t # u
        /\ op[t].kind = "write_access" /\ pc[t] = "cs"
        /\ k[t] = 1 /\ n[t] >= 1 /\ n[t] < ScopedOps
        /\ value[op[t].a] # committed[op[t].a]
        /\ op[u].kind = "operator_T" /\ Waiting(u, op[t].a)


\* C2: the lock protects the payload.  A thread that is reading or writing
\* payloads (it is inside the body of an accessor, operator T, ==, !=, a
\* copy/move constructor or assignment, or a swap) owns the mutex of every
\* instance whose payload the operation touches: one for the single-instance
\* operations, both for the two-instance ones.
C2_LockProtectsPayload ==
    \A t \in Threads :
        pc[t] \in {"cs", "unlock"} => \A i \in Touched(t) : mutex[i] = t

\* A two-instance operation on distinct shared instances is part-way
\* through the payloads while another thread waits for one of the two locks.
C2_Witness ==
    \E t, u \in Threads :
        /\ t # u
        /\ pc[t] = "cs" /\ k[t] > 1
        /\ op[t].kind \in DualKinds /\ op[t].a # op[t].b
        /\ pc[u] = "lock" /\ op[u].a \in Touched(t)


\* Assignments between distinct instances: every thread runs A = B and
\* B = A, copying or moving, any number of times.  A thread that can take a
\* step infinitely often does take it (the scheduler starves no thread, and
\* a thread waiting in lock() gets the mutex in the end).
AssignMenu(t) == {o \in OpsOf({"copy_assign", "move_assign"}, t) : o.a # o.b}

NextAssign ==
    \E t \in Threads :
        \/ Call(t, AssignMenu(t))
        \/ LockFirst(t) \/ TryLock(t) \/ BackOff(t)
        \/ CopyCell(t) \/ MoveCell(t)
        \/ Unlock(t) \/ Return(t)

FairAssign ==
    Init /\ [][NextAssign]_vars /\ \A t \in Threads : SF_vars(Run(t))

\* The same assignments with both operands one instance, A = A and
\* A = std::move(A), run by a single thread.
SelfMenu(t) == {o \in OpsOf({"copy_assign", "move_assign"}, t) : o.a = o.b}

NextSelf ==
    \/ Call(1, SelfMenu(1))
    \/ LockFirst(1) \/ TryLock(1) \/ BackOff(1)
    \/ CopyCell(1) \/ MoveCell(1)
    \/ Unlock(1) \/ Return(1)

FairSelf == Init /\ [][NextSelf]_vars /\ SF_vars(Run(1))

\* Thread t has called an operation that has not returned yet.
Unfinished(t) == pc[t] \notin {"idle", "ret"}

\* C3 (as stated): with A = B and B = A running concurrently, under fair
\* scheduling every assignment that was started completes.
C3_AssignmentsComplete ==
    \A t \in Threads : Unfinished(t) ~> (pc[t] = "ret")

\* Whenever assignments are unfinished, one of them can take its next step.
SomeCanStep ==
    (\E t \in Threads : Unfinished(t))
        => \E t \in Threads : Unfinished(t) /\ ENABLED Run(t)

\* C3 (amended): no reachable state is a deadlock, and under fair
\* scheduling every assignment that was started completes unless its
\* try_lock() fails again and again for ever (the std::lock retry loop
\* never blocks, but it can lose every round).
C3_NoDeadlock ==
    /\ []SomeCanStep
    /\ \A t \in Threads :
        \/ []<>(pc[t] = "backoff")
        \/ (Unfinished(t) ~> (pc[t] = "ret"))

\* One thread holds A and is about to try B while the other holds B and is
\* about to try A.
C3_Witness ==
    \E t, u \in Threads :
        /\ t # u
        /\ pc[t] = "try" /\ pc[u] = "try"
        /\ mutex[FirstInst(t)] = t /\ mutex[FirstInst(u)] = u
        /\ SecondInst(t) = FirstInst(u) /\ SecondInst(u) = FirstInst(t)

\* C4: self-assignment is safe.  A thread that starts A = A or
\* A = std::move(A) with A's lock free gets the combined lock, completes,
\* and leaves A unlocked.
C4_SelfAssignCompletes ==
    Unfinished(1) ~> (pc[1] = "ret" /\ \A i \in Inst : mutex[i] = NoThread)


\* Comparisons of two distinct instances racing with writers: every thread
\* runs A == B, A != B (either operand order) and write accessors.
CompareMenu(t) ==
    {o \in OpsOf({"eq", "ne", "write_access"}, t) : o.kind \in DualKinds => o.a # o.b}

NextCompare ==
    \E t \in Threads :
        \/ Call(t, CompareMenu(t))
        \/ LockGuard(t) \/ LockFirst(t) \/ TryLock(t) \/ BackOff(t)
        \/ AppendCell(t) \/ CompareCell(t)
        \/ Unlock(t) \/ Return(t)

SpecCompare == Init /\ [][NextCompare]_vars

\* One thread alone calls the operations one after another, in any order;
\* the two-instance operations are called on distinct instances.
SeqMenu(t) == {o \in Ops(t) : o.kind \in DualKinds => o.a # o.b}

NextSeq ==
    \/ Call(1, SeqMenu(1))
    \/ LockGuard(1) \/ LockFirst(1) \/ TryLock(1)
    \/ AppendCell(1) \/ ReadCell(1) \/ ConvCell(1)
    \/ CopyCell(1) \/ MoveCell(1)
    \/ CompareCell(1) \/ CompareRawCell(1)
    \/ SwapCell(1) \/ SwapRawCell(1)
    \/ UnlockTracked(1) \/ Return(1)

SpecSeq == Init /\ [][NextSeq]_vars

\* Thread t runs a comparison of two instances.
Comparing(t) == op[t].kind \in {"eq", "ne"}
NoOtherInCritical(t) ==
    \A u \in Threads \ {t} : \A i \in Touched(t) : ~InCritical(u, i)

\* C7: consistent comparison.  While A == B or A != B compares the payloads
\* the caller owns both mutexes and no other thread is in a critical
\* section on A or on B; the words compared so far were compared as they
\* still are, and the finished comparison is the comparison of the two
\* whole payloads as they are at that instant.
C7_ConsistentComparison ==
    \A t \in Threads :
        (Comparing(t) /\ pc[t] \in {"cs", "unlock"}) =>
            /\ mutex[op[t].a] = t /\ mutex[op[t].b] = t
            /\ NoOtherInCritical(t)
            /\ pc[t] = "cs" =>
                (acc[t] <=> \A c \in Cells :
                    c < k[t] => value[op[t].a][c] = value[op[t].b][c])
            /\ pc[t] = "unlock" =>
                (Result(t) <=> (op[t].kind = "eq" <=> value[op[t].a] = value[op[t].b]))

\* A comparison has compared the first words of two distinct instances
\* while a write accessor on its second operand waits for the lock.
C7_Witness ==
    \E t, u \in Threads :
        /\ t # u
        /\ Comparing(t) /\ pc[t] = "cs" /\ k[t] > 1
        /\ op[u].kind = "write_access" /\ Waiting(u, op[t].b)

\* C8: copy/move fidelity, with no concurrent mutation.  A completed copy
\* construction or copy assignment B = A leaves B's payload equal to A's,
\* and A's as it was; B == A (or A == B) called next returns true.  A
\* completed move leaves B's payload equal to A's payload from before the
\* move, and A usable: its payload is a value of T and its lock is free.
C8_CopyMoveFidelity ==
    /\ (op[1].kind \in CopyKinds /\ pc[1] = "unlock") =>
            /\ value[op[1].a] = old[1][2]
            /\ value[op[1].b] = old[1][2]
    /\ (op[1].kind \in CopyKinds /\ pc[1] = "ret") =>
            /\ value[op[1].a] = value[op[1].b]
            /\ mutex[op[1].a] = NoThread /\ mutex[op[1].b] = NoThread
    /\ (op[1].kind \in MoveKinds /\ pc[1] = "unlock") =>
            value[op[1].a] = old[1][2]
    /\ (op[1].kind \in MoveKinds /\ pc[1] = "ret") =>
            /\ value[op[1].b] \in T
            /\ mutex[op[1].a] = NoThread /\ mutex[op[1].b] = NoThread
    /\ (/\ op[1].kind = "eq" /\ pc[1] = "unlock"
        /\ last.op.kind = "copy_assign"
        /\ {last.op.a, last.op.b} = {op[1].a, op[1].b}) => Result(1)

\* B == A has found the payloads equal right after B = A copied a payload
\* that differed from B's.
C8_Witness ==
    /\ op[1].kind = "eq" /\ pc[1] = "unlock" /\ Result(1)
    /\ last.op.kind = "copy_assign"
    /\ last.op.a = op[1].a /\ last.op.b = op[1].b
    /\ last.before[1] # last.before[2]

\* The raw T or the second instance of a swap.
Other(t) == IF op[t].kind = "swap" THEN value[op[t].b] ELSE buf[t]
Swapped(p) == <<p[2], p[1]>>

\* C9: swap correctness.  A completed swap(A, B), swap(A, v) or swap(v, A)
\* has exchanged the two payloads; when it returns every lock is free; and a
\* second swap of the same operands right after the first restores the
\* payloads from before the first.
C9_SwapCorrectness ==
    /\ (op[1].kind \in SwapKinds /\ pc[1] = "unlock") =>
            /\ <<value[op[1].a], Other(1)>> = Swapped(old[1])
            /\ (last.op = op[1] /\ old[1] = Swapped(last.before))
                    => <<value[op[1].a], Other(1)>> = last.before
    /\ (op[1].kind \in SwapKinds /\ pc[1] = "ret") =>
            \A i \in AllInst : mutex[i] = NoThread

\* The second of two swaps of the same distinct instances, whose payloads
\* differ, is complete.
C9_Witness ==
    /\ op[1].kind = "swap" /\ pc[1] = "unlock"
    /\ last.op = op[1]
    /\ old[1] = Swapped(last.before)
    /\ old[1][1] # old[1][2]

\* C10: equality after independent mutation.  With the payloads as the
\* last mutation left them, A == B returns true exactly when the payloads
\* are equal and A != B exactly when they differ, whichever instance is the
\* left operand; so != is the negation of ==.
C10_EqualityFollowsPayloads ==
    (Comparing(1) /\ pc[1] \in {"unlock", "ret"}) =>
        /\ op[1].kind = "eq" => (Result(1) <=> value[op[1].a] = value[op[1].b])
        /\ op[1].kind = "ne" => (Result(1) <=> value[op[1].a] # value[op[1].b])

\* B != A, with the higher-numbered instance on the left, has returned true.
C10_Witness ==
    /\ op[1].kind = "ne" /\ pc[1] = "ret" /\ Result(1)
    /\ op[1].a > op[1].b


\* ------------------------------------------------ release on every path
\* The payload operation throws before it changes a word (std::string's
\* append and assignment allocate first): the body is left and the stack
\* unwinds through ~lock_guard / ~scoped_lock.
ThrowKinds == {"write_access"} \cup CopyKinds

\* A throw that leaves the operation without running the lock's destructor.
ThrowNoUnwind(t) ==
    /\ InBody(t, ThrowKinds)
    /\ k[t] = 1
    /\ pc' = [pc EXCEPT ![t] = "ret"]
    /\ UNCHANGED <<mutex, value, op, first, k, n, buf, acc, committed, old, last>>

Throw(t) ==
    /\ InBody(t, ThrowKinds)
    /\ k[t] = 1
    /\ pc' = [pc EXCEPT ![t] = "unlock"]
    /\ UNCHANGED <<mutex, value, op, first, k, n, buf, acc, committed, old, last>>

\* Accessors and copy assignments between distinct instances, each of which
\* may throw.
ReleaseMenu(t) ==
    {o \in OpsOf({"write_access", "read_access", "copy_assign"}, t) :
        o.kind \in DualKinds => o.a # o.b}

NextRelease ==
    \E t \in Threads :
        \/ Call(t, ReleaseMenu(t))
        \/ LockGuard(t) \/ LockFirst(t) \/ TryLock(t) \/ BackOff(t)
        \/ AppendCell(t) \/ ReadCell(t) \/ CopyCell(t) \/ Throw(t)
        \/ Unlock(t) \/ Return(t)

SpecRelease == Init /\ [][NextRelease]_vars

\* The accessor of thread t was left by a throw: member calls were still
\* to come when its scope ended.
LeftByThrow(t) ==
    /\ op[t].kind = "write_access"
    /\ pc[t] \in {"unlock", "ret"}
    /\ n[t] > 0

\* The mutexes thread t owns.
Held(t) == {i \in AllInst : mutex[i] = t}

\* Thread t releases mutex i in this step.
Releases(t, i) == mutex[i] = t /\ mutex'[i] # t

\* C11: guaranteed release.  A thread owns an instance's mutex only inside
\* an operation on that instance and owns every mutex of the operation as
\* long as its accessor is alive or its body runs; a mutex is released only
\* by the destructor of the lock (or by std::lock backing off), which
\* unlocks mutexes the thread owns and leaves it owning none, whether the
\* body completed or threw; a thread that has returned owns no mutex.
C11_GuaranteedRelease ==
    /\ [](\A t \in Threads :
            /\ \A i \in Held(t) : Unfinished(t) /\ i \in Touched(t)
            /\ pc[t] \in {"cs", "unlock"} => Held(t) = Touched(t))
    /\ [][\A t \in Threads :
            /\ \A i \in AllInst :
                Releases(t, i) =>
                    /\ mutex'[i] = NoThread
                    /\ \/ pc[t] = "backoff"
                       \/ pc[t] = "unlock" /\ pc'[t] = "ret"
            /\ pc[t] = "unlock" /\ pc'[t] # "unlock" =>
                /\ Held(t) = Touched(t)
                /\ \A i \in Touched(t) : mutex'[i] = NoThread]_vars

\* A named write accessor was left by a throw, its mutex is free again and
\* the other thread has locked it since.
C11_Witness ==
    \E t, u \in Threads :
        /\ LeftByThrow(t) /\ pc[t] = "ret"
        /\ Held(t) = {}
        /\ mutex[op[t].a] = u


\* ------------------------------------------------- temporary accessors
\* Thread t is in an expression that uses operator-> (a temporary accessor
\* when one member call is made through it).
InAccess(t) == op[t].kind \in AccessKinds /\ Unfinished(t)
\* Thread t is between two of its expressions.
Between(t) == pc[t] \in {"idle", "ret"}

\* C12: lifetime of a temporary accessor.  The lock is taken before the
\* member call touches a word of the payload, it is held while the call
\* runs, and when the expression is over the thread no longer holds it:
\* between two accesses of one thread the mutex is not that thread's, and
\* a thread waiting for a mutex nobody is using can lock it at once.
C12_TemporaryLifetime ==
    /\ \A t \in Threads :
        /\ InAccess(t) /\ pc[t] = "lock" => k[t] = 1 /\ n[t] >= 1 /\ Held(t) = {}
        /\ InAccess(t) /\ pc[t] = "cs" => n[t] >= 1 /\ Held(t) = {op[t].a}
        /\ InAccess(t) /\ pc[t] = "unlock" => n[t] = 0 /\ k[t] = 1
        /\ Between(t) => Held(t) = {}
    /\ \A i \in Inst : \A t, u \in Threads :
        (/\ t # u
         /\ Between(t)
         /\ Waiting(u, i)
         /\ \A w \in Threads : ~InCritical(w, i))
            => ENABLED LockGuard(u)

\* A thread has finished g->append(x) on an instance and has not started
\* its next expression; meanwhile another thread is in the middle of its
\* own member call on the same instance.
C12_Witness ==
    \E i \in Inst : \E t, u \in Threads :
        /\ t # u
        /\ op[t].kind = "write_access" /\ op[t].a = i /\ pc[t] = "ret"
        /\ AccessorAlive(u, i) /\ k[u] > 1
        /\ value[i] # committed[i]


\* ------------------------------------------------------- no lost update
\* Every thread repeats g->append(x): one read-modify-write of the payload
\* through a temporary write accessor.
UpdateMenu(t) == OpsOf({"write_access"}, t)

NextUpdate ==
    \E t \in Threads :
        \/ (\E o \in UpdateMenu(t) : Start(t, o, Default, 1))
        \/ LockGuard(t) \/ AppendCell(t)
        \/ Unlock(t) \/ Return(t)

SpecUpdate == Init /\ [][NextUpdate]_vars

\* The words of its append that thread t has written so far.
Written(t) == IF pc[t] = "unlock" THEN NCells ELSE k[t] - 1

\* Payload v with its first done words already those of v.append(x).
PartlyAppended(v, w, done) ==
    \A c \in Cells :
        /\ c <= done /\ c < NCells => w[c] = v[c + 1]
        /\ c > done => w[c] = v[c]

\* C13: no lost update.  An append is applied to the payload the previous
\* holder of the lock left (the result of all earlier appends, in the order
\* the lock was acquired): while a thread is inside its append the payload
\* is that earlier result with the words written so far appended, at the
\* end it is that result with the whole append applied, and outside every
\* critical section the payload is what the last holder left.
C13_NoLostUpdate ==
    \A i \in Inst :
        /\ \A t \in Threads :
            AccessorAlive(t, i) =>
                PartlyAppended(committed[i], value[i], Written(t))
        /\ (\A t \in Threads : ~InCritical(t, i)) => value[i] = committed[i]

\* One thread has completed its append on an instance and changed the
\* payload, while the other thread, which called append on the same instance
\* at the same time, is still waiting for the lock.
C13_Witness ==
    \E i \in Inst : \E t, u \in Threads :
        /\ t # u
        /\ AccessorAlive(t, i) /\ pc[t] = "unlock"
        /\ value[i] # committed[i]
        /\ Waiting(u, i)


\* ------------------------------------------------ two locks, all or none
\* Every two-instance operation on distinct instances (constructions,
\* assignments, comparisons, swap), racing with write accessors that keep
\* one of the instances locked.
DualMenu(t) ==
    {o \in OpsOf(DualKinds \cup CtorKinds \cup {"write_access"}, t) :
        o.kind \in DualKinds => o.a # o.b}

NextDual ==
    \E t \in Threads :
        \/ Call(t, DualMenu(t))
        \/ LockGuard(t) \/ LockFirst(t) \/ TryLock(t) \/ BackOff(t)
        \/ AppendCell(t) \/ CopyCell(t) \/ MoveCell(t)
        \/ CompareCell(t) \/ SwapCell(t)
        \/ Unlock(t) \/ Return(t)

SpecDual == Init /\ [][NextDual]_vars

\* Thread t is inside a call that cannot take its next step: it waits in
\* Mutex::lock().
Blocked(t) == Unfinished(t) /\ ~ENABLED Run(t)

\* C14: all-or-nothing acquisition.  A thread in a two-instance operation
\* that is blocked waiting for a mutex owns no mutex, and in its critical
\* section it owns both; so an instance is never kept locked by a
\* two-instance operation that is still waiting for its other operand.
C14_AllOrNothing ==
    \A t \in Threads :
        IsDual(t) =>
            /\ Blocked(t) => Held(t) = {}
            /\ pc[t] \in {"cs", "unlock"} => Held(t) = Touched(t)
            /\ \A i \in Held(t) : i \in Touched(t)

\* A two-instance operation found its second operand locked by another
\* thread's accessor, backed off, and now waits for that operand: it owns
\* nothing and its other operand is free for any thread.
C14_Witness ==
    \E t, u \in Threads :
        /\ t # u
        /\ IsDual(t) /\ Blocked(t) /\ first[t] = 2
        /\ AccessorAlive(u, FirstInst(t))
        /\ mutex[SecondInst(t)] = NoThread


\* ------------------------------------------------ copying a moving source
\* Copy construction and copy assignment from an instance that other
\* threads mutate through temporary and named write accessors.
CopyMenu(t) ==
    {o \in OpsOf(CopyKinds \cup {"write_access"}, t) :
        o.kind \in DualKinds => o.a # o.b}

NextCopy ==
    \E t \in Threads :
        \/ Call(t, CopyMenu(t))
        \/ LockGuard(t) \/ LockFirst(t) \/ TryLock(t) \/ BackOff(t)
        \/ AppendCell(t) \/ CopyCell(t)
        \/ Unlock(t) \/ Return(t)

SpecCopy == Init /\ [][NextCopy]_vars

\* Thread t is copying into op[t].a from op[t].b.
Copying(t) == op[t].kind \in CopyKinds /\ pc[t] \in {"cs", "unlock"}

\* C15: a copy is atomic with respect to its source.  From the moment the
\* copying thread has its locks the source is the payload its last holder
\* left at unlock (committed), it stays that payload while the copy runs,
\* and the finished copy is equal to it: never a payload from inside
\* another thread's sequence of writes.
C15_CopyAtomic ==
    \A t \in Threads :
        Copying(t) =>
            /\ value[op[t].b] = committed[op[t].b]
            /\ old[t][2] = committed[op[t].b]
            /\ \A u \in Threads \ {t} : ~InCritical(u, op[t].b)
            /\ \A c \in Cells :
                (pc[t] = "unlock" \/ c < k[t]) =>
                    value[op[t].a][c] = committed[op[t].b][c]

\* A copy from an instance is complete while another thread, which is about
\* to run several appends on that instance under a named write accessor,
\* waits for the lock; the copy differs from the default payload.
C15_Witness ==
    \E t, u \in Threads :
        /\ t # u
        /\ Copying(t) /\ pc[t] = "unlock"
        /\ value[op[t].a] # Default
        /\ Waiting(u, op[t].b) /\ op[u].kind = "write_access" /\ n[u] > 1


\* --------------------------------------------- operations with a raw T
\* Thread 1 runs the operations that take a raw T (A == v, A != v, both
\* swaps) and the conversion to T, all on instance 1; the other threads
\* hold accessors on the other instances for as long as they like: only
\* thread 1 is scheduled fairly.
RawOpKinds == RawKinds \cup {"operator_T"}
RawMenu(t) ==
    IF t = 1 THEN {o \in OpsOf(RawOpKinds, t) : o.a = 1}
    ELSE {o \in OpsOf(AccessKinds, t) : o.a # 1}

NextRaw ==
    \E t \in Threads :
        \/ Call(t, RawMenu(t))
        \/ LockGuard(t)
        \/ AppendCell(t) \/ ReadCell(t) \/ ConvCell(t)
        \/ CompareRawCell(t) \/ SwapRawCell(t)
        \/ Unlock(t) \/ Return(t)

FairRaw == Init /\ [][NextRaw]_vars /\ WF_vars(Run(1))

\* Thread t takes a step.
Stepped(t) == <<pc[t], k[t], n[t]>>' # <<pc[t], k[t], n[t]>>

\* Instance i is locked by a thread other than t.
LockedByOther(t, i) == mutex[i] \notin {NoThread, t}

\* C16: frame of the raw-value operations.  A == v, A != v, the conversion
\* to T and the swaps with a raw T own no mutex but A's, wait for nothing
\* but A's mutex, change no other instance's mutex or payload, and complete
\* although another thread keeps an accessor on another instance alive for
\* ever.
C16_SingleLockFrame ==
    /\ [](op[1].kind \in RawOpKinds =>
            /\ Held(1) \subseteq {op[1].a}
            /\ Blocked(1) => LockedByOther(1, op[1].a))
    /\ [][op[1].kind \in RawOpKinds /\ Stepped(1) =>
            \A i \in AllInst \ {op[1].a} :
                mutex'[i] = mutex[i] /\ value'[i] = value[i]]_vars
    /\ Unfinished(1) ~> (pc[1] = "ret")

\* Thread 1 is swapping A with a raw T while another thread's named
\* accessor on another instance is alive, in the middle of a member call.
C16_Witness ==
    \E u \in Threads \ {1} :
        /\ pc[1] = "cs" /\ op[1].kind \in SwapKinds /\ k[1] > 1
        /\ value[op[1].a] # committed[op[1].a]
        /\ AccessorAlive(u, op[u].a) /\ op[u].a # op[1].a
        /\ n[u] > 1 /\ k[u] > 1


\* ------------------------------------------------- a cycle of instances
\* Three or more instances in a ring: the shared ones and one more, kept in
\* the slot after them (no constructor runs in this scenario, so the slot
\* holds no function-local object).  Every thread runs, again and again,
\* A = B, swap(B, C), C == A, ... around the ring, and g->append(x) on any
\* instance of the ring.
Ring == 1..(NInst + 1)
Succ(i) == IF i = NInst + 1 THEN 1 ELSE i + 1
RingKind(i) == IF i = 1 THEN "copy_assign" ELSE IF i = 2 THEN "swap" ELSE "eq"
CycleMenu(t) ==
    {[kind |-> RingKind(i), a |-> i, b |-> Succ(i)] : i \in Ring}
        \cup {[kind |-> "write_access", a |-> i, b |-> 0] : i \in Ring}

NextCycle ==
    \E t \in Threads :
        \/ (\E o \in CycleMenu(t) : Start(t, o, Default, IF o.b = 0 THEN 1 ELSE 0))
        \/ LockGuard(t) \/ LockFirst(t) \/ TryLock(t) \/ BackOff(t)
        \/ AppendCell(t) \/ CopyCell(t) \/ CompareCell(t) \/ SwapCell(t)
        \/ Unlock(t) \/ Return(t)

FairCycle ==
    Init /\ [][NextCycle]_vars /\ \A t \in Threads : SF_vars(Run(t))

SelfOpsMenu(t) == {o \in OpsOf({"eq", "ne", "swap"}, t) : o.a = o.b}

NextSelfOps ==
    \/ Call(1, SelfOpsMenu(1))
    \/ LockFirst(1) \/ TryLock(1) \/ BackOff(1)
    \/ CompareCell(1) \/ SwapCell(1)
    \/ UnlockTracked(1) \/ Return(1)

FairSelfOps == Init /\ [][NextSelfOps]_vars /\ WF_vars(NextSelfOps)

\* What the caller of a self-operation is promised on return: A == A is
\* true, A != A is false, swap(A, A) leaves the payload as it was, and A is
\* unlocked.
SelfOpReturned(t) ==
    /\ pc[t] = "ret"
    /\ \A i \in Inst : mutex[i] = NoThread
    /\ op[t].kind = "eq" => Result(t)
    /\ op[t].kind = "ne" => ~Result(t)
    /\ op[t].kind = "swap" => last.op = op[t] /\ value[op[t].a] = last.before[1]

\* C18: self-comparison and self-swap.  A thread that starts A == A,
\* A != A or swap(A, A) with A's lock free completes with the promised
\* result and leaves A unlocked.
C18_SelfOpsComplete ==
    Unfinished(1) ~> SelfOpReturned(1)


\* ------------------------------------------------- nested locking
\* A thread whose accessor is alive (a named accessor between two member
\* calls, or a temporary whose member call has returned and whose full
\* expression goes on) starts a second locking operation: another
\* operator-> or a conversion to T on any instance, or a two-instance
\* operation whose left operand is the instance it has locked.
NestMenu(t) ==
    OpsOf({"write_access", "read_access", "operator_T"}, t)
        \cup {o \in OpsOf(DualKinds, t) : o.a = op[t].a /\ o.b # o.a}

\* The second operation starts; the first accessor stays alive, so its
\* mutex stays locked.
Nest(t) ==
    /\ AccessorAlive(t, op[t].a)
    /\ k[t] = 1
    /\ Held(t) = {op[t].a}
    /\ \E o \in NestMenu(t) : \E calls \in Calls(o) :
        /\ op' = [op EXCEPT ![t] = o]
        /\ n' = [n EXCEPT ![t] = calls]
    /\ buf' = [buf EXCEPT ![t] = Default]
    /\ first' = [first EXCEPT ![t] = 1]
    /\ acc' = [acc EXCEPT ![t] = TRUE]
    /\ pc' = [pc EXCEPT ![t] = "lock"]
    /\ UNCHANGED <<mutex, value, k, committed, old, last>>

\* End of the full expression or of the scope: every accessor of the thread
\* is destroyed, and each unlocks its mutex.
UnlockAll(t) ==
    /\ pc[t] = "unlock"
    /\ mutex' = [i \in AllInst |-> IF mutex[i] = t THEN NoThread ELSE mutex[i]]
    /\ committed' = [i \in AllInst |-> IF mutex[i] = t THEN value[i] ELSE committed[i]]
    /\ old' = [old EXCEPT ![t] = <<Default, Default>>]
    /\ pc' = [pc EXCEPT ![t] = "ret"]
    /\ UNCHANGED <<value, op, first, k, n, buf, acc, last>>

\* Accessors, and second operations started while an accessor is alive.
NestedMenu(t) == OpsOf(AccessKinds, t)

NextNested ==
    \E t \in Threads :
        \/ Call(t, NestedMenu(t))
        \/ Nest(t)
        \/ LockGuard(t)
        \/ AppendCell(t) \/ ReadCell(t) \/ ConvCell(t)
        \/ UnlockAll(t) \/ Return(t)

SpecNested == Init /\ [][NextNested]_vars

\* Thread t waits in lock() for a mutex it owns itself (a std::mutex is not
\* recursive: lock() does not return while the mutex is owned, whoever
\* owns it).
SelfWaiting(t) == pc[t] = "lock" /\ mutex[FirstInst(t)] = t

NestedWaiting(t) ==
    /\ pc[t] = "lock"
    /\ Held(t) # {}
    /\ op[t].a \notin Held(t)

\* Each of the two threads owns the mutex the other one waits for.
CrossWait(t, u) ==
    /\ t # u
    /\ NestedWaiting(t) /\ NestedWaiting(u)
    /\ mutex[op[t].a] = u
    /\ mutex[op[u].a] = t

\* C20: nested accessors are acquired one after the other.  A thread that
\* takes an accessor on B while its accessor on A is alive keeps A locked
\* while it waits for B, and it waits exactly as long as another thread
\* owns B; when two threads wait for each other's instance neither can take
\* a step, and they stay like that for ever.
C20_NestedSequential ==
    /\ [](\A t \in Threads :
            NestedWaiting(t) =>
                /\ \A i \in Held(t) : i # op[t].a /\ mutex[i] = t
                /\ Blocked(t) <=> LockedByOther(t, op[t].a))
    /\ [](\A t, u \in Threads : CrossWait(t, u) => Blocked(t) /\ Blocked(u))
    /\ [][\A t, u \in Threads : CrossWait(t, u) => CrossWait(t, u)']_vars

\* One thread has an accessor on A and waits for B while the other has an
\* accessor on B and waits for A.
C20_Witness ==
    \E t, u \in Threads :
        /\ CrossWait(t, u)
        /\ op[t].kind \in AccessKinds /\ op[u].kind \in AccessKinds

====
